---- MODULE Spec2Model ----
(***************************************************************************)
(* Model of the JOSE harvesting pipeline (src/src/main.py, src/src/db.py). *)
(*                                                                         *)
(* Text is a sequence of one-character strings, so that strip(), lower(),  *)
(* split() and join() are computed and not assumed.  A parsed document     *)
(* (BeautifulSoup) is a record holding, for every selector the code uses,  *)
(* the sequence of matching elements in document order: find_all returns   *)
(* the sequence, find returns its first element or None.                   *)
(***************************************************************************)
EXTENDS Integers, Sequences, FiniteSets, TLC

VARIABLES pc, page, listing_data, front_matter, all_urls, article_urls,
          max_workers, futures, num_threads, article_data, df, idx, data,
          metadata,
          \* the listing pages the catalogue can serve to get_all_article_urls
          site,
          \* the calls of requests.get made by download_listing_pages and
          \* get_all_article_urls so far, each with whether it was answered
          \* with status 200 and the page it was answered with
          log

vars == <<pc, page, listing_data, front_matter, all_urls, article_urls,
          max_workers, futures, num_threads, article_data, df, idx, data,
          metadata, site, log>>

(***************************************************************************)
(* Bounds of the model.                                                    *)
(***************************************************************************)
\* pages of the catalogue (the source walks 12)
TotalPages == 2
\* longest text of an element or attribute
MaxLen == 2
\* longest text of the <title> element
MaxTitleLen == 3
\* most elements matched by one find_all
MaxTags == 2
\* most references handed to the harvester
MaxRefs == 3
\* most anchors inside one paper-card
MaxAnchors == 2

\* ThreadPoolExecutor(max_workers=20)
MAX_WORKERS == 20

(***************************************************************************)
(* Generic helpers.                                                        *)
(***************************************************************************)
SeqsUpTo(S, n) == UNION {[1..k -> S] : k \in 0..n}

SetMin(S) == CHOOSE x \in S : \A y \in S : x <= y

SetMax(S) == CHOOSE x \in S : \A y \in S : x >= y

Range(s) == {s[i] : i \in 1..Len(s)}

\* the sequences that list every element of the finite set S exactly once
Perms(S) == {s \in [1..Cardinality(S) -> S] : Range(s) = S}

(***************************************************************************)
(* Python str methods.                                                     *)
(***************************************************************************)
IsSpace(c) == c = " "

\* str.strip(): drop leading and trailing whitespace
strip(s) ==
    LET keep == {i \in 1..Len(s) : ~IsSpace(s[i])}
    IN  IF keep = {} THEN <<>> ELSE SubSeq(s, SetMin(keep), SetMax(keep))

\* str.lower()
lower(s) == [i \in 1..Len(s) |-> IF s[i] = "A" THEN "a" ELSE s[i]]

\* str.split(sep)[0]: the part before the first separator, or all of s
split_first(s, sep) ==
    LET at == {i \in 1..Len(s) : s[i] = sep}
    IN  IF at = {} THEN s ELSE SubSeq(s, 1, SetMin(at) - 1)

RECURSIVE join(_, _)
\* sep.join(parts)
join(sep, parts) ==
    IF Len(parts) = 0 THEN <<>>
    ELSE IF Len(parts) = 1 THEN parts[1]
    ELSE parts[1] \o sep \o join(sep, Tail(parts))

(***************************************************************************)
(* Elements of a parsed document.                                          *)
(*   meta element : [content |-> <<>>]  (no content attribute)             *)
(*                  [content |-> <<t>>] (content attribute with text t)    *)
(*   text element : [text |-> t]                                           *)
(*   badge        : [class |-> set of class names, text |-> t]             *)
(***************************************************************************)
\* tag.get("content") is truthy: the attribute exists and is not ""
HasContent(tag) == Len(tag.content) = 1 /\ Len(tag.content[1]) > 0

\* tag["content"] raises KeyError when the attribute is missing
RaisesKeyError(tag) == Len(tag.content) = 0

\* soup.find(...) found an element
Found(elems) == Len(elems) > 0

RECURSIVE author_parts(_)
\* tag["content"].strip() for tag in author_tags if tag.get("content")
author_parts(tags) ==
    IF Len(tags) = 0 THEN <<>>
    ELSE IF HasContent(tags[1])
         THEN <<strip(tags[1].content[1])>> \o author_parts(Tail(tags))
         ELSE author_parts(Tail(tags))

\* the title cascade
extract_title(soup) ==
    IF Found(soup.citation_title) /\ HasContent(soup.citation_title[1])
    THEN strip(soup.citation_title[1].content[1])
    ELSE IF Found(soup.paper_title) /\ Len(strip(soup.paper_title[1].text)) > 0
         THEN strip(soup.paper_title[1].text)
         ELSE IF Found(soup.title)
              THEN split_first(strip(soup.title[1].text), "·")
              ELSE <<>>

\* mutant: an empty join falls back to the submitted-by element
extract_authors_fallback(soup) ==
    IF ~Found(soup.citation_author)
          \/ join(<<";", " ">>, author_parts(soup.citation_author)) = <<>>
    THEN IF Found(soup.submitted_by) THEN strip(soup.submitted_by[1].text)
         ELSE <<>>
    ELSE join(<<";", " ">>, author_parts(soup.citation_author))

\* the authors cascade
extract_authors(soup) ==
    IF ~Found(soup.citation_author)
    THEN IF Found(soup.submitted_by) THEN strip(soup.submitted_by[1].text)
         ELSE <<>>
    ELSE join(<<";", " ">>, author_parts(soup.citation_author))

\* the publication date section raises (KeyError)
pub_date_raises(soup) ==
    Found(soup.citation_publication_date)
    /\ RaisesKeyError(soup.citation_publication_date[1])

\* the publication date cascade, when it does not raise
extract_pub_date(soup) ==
    IF ~Found(soup.citation_publication_date)
    THEN IF Found(soup.time) THEN strip(soup.time[1].text) ELSE <<>>
    ELSE strip(soup.citation_publication_date[1].content[1])

RECURSIVE first_status(_)
\* the loop over badge_tags: the first badge without the badge-lang class
first_status(badge_tags) ==
    IF Len(badge_tags) = 0 THEN <<>>
    ELSE IF "badge-lang" \notin badge_tags[1].class
         THEN lower(strip(badge_tags[1].text))
         ELSE first_status(Tail(badge_tags))

\* mutant: the first badge is taken whatever its classes
extract_status_first_badge(soup) ==
    IF Len(soup.badge) = 0 THEN <<>> ELSE lower(strip(soup.badge[1].text))

\* the status scan
extract_status(soup) == first_status(soup.badge)

\* BeautifulSoup(row["html"], "lxml"): a non-empty body holds its document
BeautifulSoup(html) == html[1]

\* the body of the try block of extract_metadata raises
row_raises(row) == pub_date_raises(BeautifulSoup(row.html))

\* the record appended for one row
row_record(row) ==
    LET soup == BeautifulSoup(row.html)
    IN  [url |-> row.url,
         title |-> extract_title(soup),
         publication_date |-> extract_pub_date(soup),
         authors |-> extract_authors(soup),
         status |-> extract_status(soup)]

(***************************************************************************)
(* Documents the retrieval collaborator can return.                        *)
(***************************************************************************)
Chars == {" ", "a"}

TitleChars == {" ", "a", "·"}

BadgeChars == {" ", "A"}

Texts == SeqsUpTo(Chars, MaxLen)

TitleTexts == SeqsUpTo(TitleChars, MaxTitleLen)

BadgeTexts == SeqsUpTo(BadgeChars, MaxLen)

MetaTags == {[content |-> <<>>]} \cup {[content |-> <<t>>] : t \in Texts}

TextTags(T) == {[text |-> t] : t \in T}

Badges ==
    {[class |-> c, text |-> t] :
        c \in {{"badge"}, {"badge", "badge-lang"}}, t \in BadgeTexts}

\* no element at all, or one
Opt(S) == SeqsUpTo(S, 1)

\* a document with none of the elements the extractor looks for
EmptyDoc ==
    [citation_title |-> <<>>, paper_title |-> <<>>, title |-> <<>>,
     citation_author |-> <<>>, submitted_by |-> <<>>,
     citation_publication_date |-> <<>>, time |-> <<>>, badge |-> <<>>]

\* a regular article page: every element present, with plain text
FullDoc ==
    [citation_title |-> <<[content |-> << <<"a">> >>]>>,
     paper_title |-> <<[text |-> <<"a">>]>>,
     title |-> <<[text |-> <<"a">>]>>,
     citation_author |-> <<[content |-> << <<"a">> >>]>>,
     submitted_by |-> <<[text |-> <<"a">>]>>,
     citation_publication_date |-> <<[content |-> << <<"a">> >>]>>,
     time |-> <<[text |-> <<"a">>]>>,
     badge |-> <<[class |-> {"badge"}, text |-> <<"A">>]>>]

BaseDocs == {EmptyDoc, FullDoc}

\* documents that differ from a base document in the title elements
TitleDoc(b, m, h, t) ==
    [b EXCEPT !.citation_title = m, !.paper_title = h, !.title = t]

\* ... in the author elements
AuthorDoc(b, m, t) == [b EXCEPT !.citation_author = m, !.submitted_by = t]

\* ... in the publication date elements
DateDoc(b, m, t) == [b EXCEPT !.citation_publication_date = m, !.time = t]

\* ... in the badges
StatusDoc(b, g) == [b EXCEPT !.badge = g]

EmptyData == [url |-> <<>>, html |-> <<>>, page |-> <<>>]

(***************************************************************************)
(* URLs are sequences of tokens, the first token being the part up to and  *)
(* including the last "/".                                                 *)
(***************************************************************************)
\* "https://jose.theoj.org/papers/", the prefix of an article URL
PAPERS_PREFIX == <<"https://jose.theoj.org/papers/">>

PaperUrl(id) == PAPERS_PREFIX \o <<id>>

\* a link of the site that is no article
OtherUrl == <<"https://jose.theoj.org/", "about">>

\* ARTICLES_URL_TEMPLATE.format(page)
ListingUrl(pg) == <<"https://jose.theoj.org/", "papers?page=", pg>>

\* str.startswith
startswith(s, prefix) ==
    Len(s) >= Len(prefix) /\ SubSeq(s, 1, Len(prefix)) = prefix

(***************************************************************************)
(* download_listing_pages: one iteration of the loop, and return.          *)
(* The text of a listing page is the sequence of its paper-card elements;  *)
(* a card is [a |-> anchors in document order], an anchor is               *)
(* [href |-> <<>>] (no href attribute) or [href |-> <<url>>].              *)
(***************************************************************************)
Card(anchors) == [a |-> anchors]

Anchor(url) == [href |-> <<url>>]

AnchorNoHref == [href |-> <<>>]

\* listing pages the catalogue serves
SamplePages ==
    {<<Card(<<Anchor(PaperUrl("p1"))>>)>>,
     <<Card(<<Anchor(OtherUrl)>>), Card(<<>>), Card(<<Anchor(PaperUrl("p2"))>>)>>,
     <<Card(<<AnchorNoHref>>)>>}

\* the page the listing walk is served
ListingText == <<Card(<<Anchor(PaperUrl("p1"))>>)>>

ListingResponses ==
    {[kind |-> "200", body |-> ListingText],
     [kind |-> "non200", body |-> <<>>],
     [kind |-> "exception", body |-> <<>>]}

\* the outcomes of requests.get in get_all_article_urls when the catalogue
\* serves the pages in bodies
DiscoveryResponses(bodies) ==
    {[kind |-> "200", body |-> b] : b \in bodies}
        \cup {[kind |-> "non200", body |-> <<>>],
              [kind |-> "exception", body |-> <<>>]}

\* one call of requests.get by function fn for listing page pg
Request(fn, pg, resp) ==
    [fn |-> fn, page |-> pg, ok |-> resp.kind = "200", body |-> resp.body]

\* a loop body that records every answered request, whatever its status
listing_step_any_status(d, resp, pg) ==
    IF resp.kind # "exception"
    THEN [url |-> Append(d.url, ListingUrl(pg)),
          html |-> Append(d.html, resp.body),
          page |-> Append(d.page, pg)]
    ELSE d

\* the body of the loop of download_listing_pages
listing_step(d, resp, pg) ==
    IF resp.kind = "200"
    THEN [url |-> Append(d.url, ListingUrl(pg)),
          html |-> Append(d.html, resp.body),
          page |-> Append(d.page, pg)]
    ELSE d

\* main: DB(fp), create_tables, and the call of download_listing_pages
Start ==
    /\ pc = "start"
    /\ pc' = "download_listing_pages"
    /\ page' = 1
    /\ listing_data' = EmptyData
    /\ UNCHANGED <<front_matter, all_urls, article_urls, max_workers, futures,
                   num_threads, article_data, df, idx, data, metadata,
                   site, log>>

ListingFetch ==
    /\ pc = "download_listing_pages"
    /\ page <= TotalPages
    /\ \E resp \in ListingResponses :
          /\ listing_data' = listing_step(listing_data, resp, page)
          /\ log' = Append(log, Request("download_listing_pages", page, resp))
    /\ page' = page + 1
    /\ UNCHANGED <<pc, front_matter, all_urls, article_urls, max_workers,
                   futures, num_threads, article_data, df, idx, data, metadata,
                   site>>

ListingReturn ==
    /\ pc = "download_listing_pages"
    /\ page > TotalPages
    /\ pc' = "df2table_front_matter"
    /\ UNCHANGED <<page, listing_data, front_matter, all_urls, article_urls,
                   max_workers, futures, num_threads, article_data, df, idx,
                   data, metadata,
                   site, log>>

\* db.df2table(df=listing_pages_df, table="front_matter"), then the call of
\* get_all_article_urls
PersistFrontMatter ==
    /\ pc = "df2table_front_matter"
    /\ front_matter' = front_matter \o
          [i \in 1..Len(listing_data.url) |->
              [url |-> listing_data.url[i], html |-> listing_data.html[i],
               page |-> listing_data.page[i]]]
    /\ pc' = "get_all_article_urls"
    /\ page' = 1
    /\ all_urls' = <<>>
    /\ UNCHANGED <<listing_data, article_urls, max_workers, futures,
                   num_threads, article_data, df, idx, data, metadata,
                   site, log>>

(***************************************************************************)
(* get_all_article_urls: one iteration of the loop, and the return with    *)
(* its set().                                                              *)
(***************************************************************************)
\* card.find("a")["href"] raises KeyError: the first anchor has no href
card_raises(card) == Len(card.a) > 0 /\ card.a[1].href = <<>>

\* the list comprehension raises
page_urls_raises(cards) == \E i \in 1..Len(cards) : card_raises(cards[i])

RECURSIVE page_urls(_, _)
\* the list comprehension, when it does not raise
page_urls(cards, pg) ==
    IF Len(cards) = 0 THEN <<>>
    ELSE IF Len(cards[1].a) > 0 /\ startswith(cards[1].a[1].href[1], PAPERS_PREFIX)
         THEN << <<cards[1].a[1].href[1], pg>> >> \o page_urls(Tail(cards), pg)
         ELSE page_urls(Tail(cards), pg)

\* what one iteration does for a response: the next position of main (an
\* exception nothing catches ends the run) and the list of references
discover_step(resp, urls, pg) ==
    IF resp.kind = "exception"
    THEN [pc |-> "uncaught_RequestException", all_urls |-> urls]
    ELSE IF resp.kind # "200"
         THEN [pc |-> "get_all_article_urls", all_urls |-> urls]
         ELSE IF page_urls_raises(resp.body)
              THEN [pc |-> "uncaught_KeyError", all_urls |-> urls]
              ELSE [pc |-> "get_all_article_urls",
                    all_urls |-> urls \o page_urls(resp.body, pg)]

DiscoverPage ==
    /\ pc = "get_all_article_urls"
    /\ page <= TotalPages
    /\ \E resp \in DiscoveryResponses(site) :
          LET r == discover_step(resp, all_urls, page)
          IN  /\ pc' = r.pc
              /\ all_urls' = r.all_urls
              /\ log' = Append(log, Request("get_all_article_urls", page, resp))
    /\ page' = page + 1
    /\ UNCHANGED <<listing_data, front_matter, article_urls, max_workers,
                   futures, num_threads, article_data, df, idx, data, metadata,
                   site>>

\* list(set(all_urls)): the distinct (url, page) tuples, in any order
unique_urls(urls) == Perms(Range(urls))

\* the return of get_all_article_urls and the call of
\* download_article_pages
DiscoverReturn ==
    /\ pc = "get_all_article_urls"
    /\ page > TotalPages
    /\ article_urls' \in unique_urls(all_urls)
    /\ pc' = "download_article_pages"
    /\ futures' = <<>>
    /\ num_threads' = 0
    /\ article_data' = EmptyData
    /\ UNCHANGED <<page, listing_data, front_matter, all_urls, max_workers,
                   df, idx, data, metadata,
                   site, log>>

(***************************************************************************)
(* download_article_pages.                                                 *)
(*   A response of the retrieval collaborator is a record                  *)
(*     [kind |-> "200" | "non200" | "exception", body |-> bytes]           *)
(*   where bytes is <<>> (b"") or <<d>> (a body that parses to d).         *)
(*   An optional content is [is_none |-> TRUE/FALSE, bytes |-> ...].       *)
(***************************************************************************)
None == [is_none |-> TRUE, bytes |-> <<>>]

Some(b) == [is_none |-> FALSE, bytes |-> b]

\* mutant: "if content is not None:"
Truthy_not_none(content) == ~content.is_none

\* "if content:" (None and b"" are both falsy)
Truthy(content) == ~content.is_none /\ Len(content.bytes) > 0

\* an article page whose publication date tag has no content attribute
NoDateContentDoc == DateDoc(EmptyDoc, <<[content |-> <<>>]>>, <<>>)

SampleDocs == {FullDoc, NoDateContentDoc}

Bodies == {<<>>} \cup {<<d>> : d \in SampleDocs}

Responses ==
    {[kind |-> "200", body |-> b] : b \in Bodies}
        \cup {[kind |-> "non200", body |-> <<>>],
              [kind |-> "exception", body |-> <<>>]}

\* mutant: the status test inverted
fetch_inverted(resp, url, pg) ==
    IF resp.kind = "non200"
    THEN [url |-> url, content |-> Some(resp.body), page |-> pg]
    ELSE [url |-> url, content |-> None, page |-> pg]

\* the nested function fetch: what it returns for a response
fetch(resp, url, pg) ==
    IF resp.kind = "exception"
    THEN [url |-> url, content |-> None, page |-> pg]
    ELSE IF resp.kind = "200"
         THEN [url |-> url, content |-> Some(resp.body), page |-> pg]
         ELSE [url |-> url, content |-> None, page |-> pg]

\* mutant: every result is appended, whatever its content
collect_all(d, res) ==
    [url |-> Append(d.url, res.url),
     html |-> Append(d.html, res.content.bytes),
     page |-> Append(d.page, res.page)]

\* mutant: the url column grows for every result, the others for captures
collect_unguarded_url(d, res) ==
    [url |-> Append(d.url, res.url),
     html |-> IF Truthy(res.content) THEN Append(d.html, res.content.bytes)
              ELSE d.html,
     page |-> IF Truthy(res.content) THEN Append(d.page, res.page)
              ELSE d.page]

\* the body of the as_completed loop
collect(d, res) ==
    IF Truthy(res.content)
    THEN [url |-> Append(d.url, res.url),
          html |-> Append(d.html, res.content.bytes),
          page |-> Append(d.page, res.page)]
    ELSE d

\* mutant: a thread for every submitted task
adjust_thread_count_unbounded(n, mw) == n + 1

\* ThreadPoolExecutor.submit starts a worker thread while fewer than
\* max_workers exist
adjust_thread_count(n, mw) == IF n < mw THEN n + 1 ELSE n

\* DataFrame(data): the columns as rows
DataFrame(d) ==
    [i \in 1..Len(d.url) |->
        [url |-> d.url[i], html |-> d.html[i], page |-> d.page[i]]]

Running == {i \in 1..Len(futures) : futures[i].state = "running"}

Pending == {i \in 1..Len(futures) : futures[i].state = "pending"}

\* executor.submit(fetch, i, url, page) for the next reference
\* (attempts counts the times a worker thread has started the task)
Submit ==
    /\ pc = "download_article_pages"
    /\ Len(futures) < Len(article_urls)
    /\ LET ref == article_urls[Len(futures) + 1]
       IN  futures' = Append(futures,
               [url |-> ref[1], page |-> ref[2], state |-> "pending",
                response |-> [kind |-> "none", body |-> <<>>],
                result |-> [url |-> ref[1], content |-> None, page |-> ref[2]],
                yielded |-> FALSE, attempts |-> 0])
    /\ num_threads' = adjust_thread_count(num_threads, max_workers)
    /\ UNCHANGED <<pc, page, listing_data, front_matter, all_urls,
                   article_urls, max_workers, article_data, df, idx, data,
                   metadata,
                   site, log>>

\* mutant: a fetch that failed is queued again
FinishFetch_retry ==
    /\ pc = "download_article_pages"
    /\ \E i \in Running, resp \in Responses :
          futures' = [futures EXCEPT
              ![i].state = IF resp.kind = "200" THEN "done" ELSE "pending",
              ![i].response = resp,
              ![i].result = fetch(resp, futures[i].url, futures[i].page)]
    /\ UNCHANGED <<pc, page, listing_data, front_matter, all_urls,
                   article_urls, max_workers, num_threads, article_data, df,
                   idx, data, metadata,
                   site, log>>

\* an idle worker thread takes the oldest queued task
StartFetch ==
    /\ pc = "download_article_pages"
    /\ Pending # {}
    /\ Cardinality(Running) < num_threads
    /\ futures' = [futures EXCEPT
          ![SetMin(Pending)].state = "running",
          ![SetMin(Pending)].attempts = @ + 1]
    /\ UNCHANGED <<pc, page, listing_data, front_matter, all_urls,
                   article_urls, max_workers, num_threads, article_data, df,
                   idx, data, metadata,
                   site, log>>

\* requests.get answers (or raises) and fetch returns
FinishFetch ==
    /\ pc = "download_article_pages"
    /\ \E i \in Running, resp \in Responses :
          futures' = [futures EXCEPT
              ![i].state = "done",
              ![i].response = resp,
              ![i].result = fetch(resp, futures[i].url, futures[i].page)]
    /\ UNCHANGED <<pc, page, listing_data, front_matter, all_urls,
                   article_urls, max_workers, num_threads, article_data, df,
                   idx, data, metadata,
                   site, log>>

\* as_completed yields a finished future and the loop body collects it
Collect ==
    /\ pc = "download_article_pages"
    /\ Len(futures) = Len(article_urls)
    /\ \E i \in 1..Len(futures) :
          /\ futures[i].state = "done"
          /\ ~futures[i].yielded
          /\ futures' = [futures EXCEPT ![i].yielded = TRUE]
          /\ article_data' = collect(article_data, futures[i].result)
    /\ UNCHANGED <<pc, page, listing_data, front_matter, all_urls,
                   article_urls, max_workers, num_threads, df, idx, data,
                   metadata,
                   site, log>>

\* mutant: main hands the harvest to df2table without extracting
HarvestReturn_NoExtract ==
    /\ pc = "download_article_pages"
    /\ Len(futures) = Len(article_urls)
    /\ \A i \in 1..Len(futures) : futures[i].yielded
    /\ pc' = "df2table_metadata"
    /\ df' = DataFrame(article_data)
    /\ idx' = 1
    /\ data' = <<>>
    /\ UNCHANGED <<page, listing_data, front_matter, all_urls, article_urls,
                   max_workers, futures, num_threads, article_data, metadata,
                   site, log>>

\* mutant: the function returns once every task is submitted
HarvestReturn_early ==
    /\ pc = "download_article_pages"
    /\ Len(futures) = Len(article_urls)
    /\ pc' = "extract_metadata"
    /\ df' = DataFrame(article_data)
    /\ idx' = 1
    /\ data' = <<>>
    /\ UNCHANGED <<page, listing_data, front_matter, all_urls, article_urls,
                   max_workers, futures, num_threads, article_data, metadata,
                   site, log>>

\* every future was yielded: the with block ends, the function returns and
\* main calls extract_metadata on the result
HarvestReturn ==
    /\ pc = "download_article_pages"
    /\ Len(futures) = Len(article_urls)
    /\ \A i \in 1..Len(futures) : futures[i].yielded
    /\ pc' = "extract_metadata"
    /\ df' = DataFrame(article_data)
    /\ idx' = 1
    /\ data' = <<>>
    /\ UNCHANGED <<page, listing_data, front_matter, all_urls, article_urls,
                   max_workers, futures, num_threads, article_data, metadata,
                   site, log>>

(***************************************************************************)
(* extract_metadata: one iteration of the loop over the rows, and return.  *)
(***************************************************************************)
ExtractRow ==
    /\ pc = "extract_metadata"
    /\ idx <= Len(df)
    /\ data' = IF row_raises(df[idx]) THEN data
               ELSE Append(data, row_record(df[idx]))
    /\ idx' = idx + 1
    /\ UNCHANGED <<pc, page, listing_data, front_matter, all_urls,
                   article_urls, max_workers, futures, num_threads,
                   article_data, df, metadata,
                   site, log>>

ExtractReturn ==
    /\ pc = "extract_metadata"
    /\ idx > Len(df)
    /\ pc' = "df2table_metadata"
    /\ UNCHANGED <<page, listing_data, front_matter, all_urls, article_urls,
                   max_workers, futures, num_threads, article_data, df, idx,
                   data, metadata,
                   site, log>>

\* the harvest of one reference whose body parses to document d
OneCapture(d) == <<[url |-> PaperUrl("p1"), html |-> <<d>>, page |-> 1]>>

\* extract_metadata called on one capture with any document
InitExtract ==
    /\ pc = "extract_metadata"
    /\ page = TotalPages + 1
    /\ listing_data = EmptyData
    /\ front_matter = <<>>
    /\ all_urls = <<>>
    /\ article_urls = <<>>
    /\ max_workers = MAX_WORKERS
    /\ futures = <<>>
    /\ num_threads = 0
    /\ article_data = EmptyData
    /\ idx = 1
    /\ data = <<>>
    /\ metadata = <<>>
    /\ site = SamplePages
    /\ log = <<>>
    /\ \E b \in BaseDocs :
        \/ \E m \in Opt(MetaTags), h \in Opt(TextTags(Texts)),
              t \in Opt(TextTags(TitleTexts)) :
              df = OneCapture(TitleDoc(b, m, h, t))
        \/ \E m \in SeqsUpTo(MetaTags, MaxTags), t \in Opt(TextTags(Texts)) :
              df = OneCapture(AuthorDoc(b, m, t))
        \/ \E m \in Opt(MetaTags), t \in Opt(TextTags(Texts)) :
              df = OneCapture(DateDoc(b, m, t))
        \/ \E g \in SeqsUpTo(Badges, MaxTags) :
              df = OneCapture(StatusDoc(b, g))

NextExtract == ExtractRow \/ ExtractReturn

SpecExtract == InitExtract /\ [][NextExtract]_vars

\* db.df2table(df=metadf, table="metadata") and the end of main
PersistMetadata ==
    /\ pc = "df2table_metadata"
    /\ metadata' = metadata \o data
    /\ pc' = "done"
    /\ UNCHANGED <<page, listing_data, front_matter, all_urls, article_urls,
                   max_workers, futures, num_threads, article_data, df, idx,
                   data,
                   site, log>>

(***************************************************************************)
(* The run of main.                                                        *)
(***************************************************************************)
Init ==
    /\ pc = "start"
    /\ page = 1
    /\ listing_data = EmptyData
    /\ front_matter = <<>>
    /\ all_urls = <<>>
    /\ article_urls = <<>>
    /\ max_workers = MAX_WORKERS
    /\ futures = <<>>
    /\ num_threads = 0
    /\ article_data = EmptyData
    /\ df = <<>>
    /\ idx = 1
    /\ data = <<>>
    /\ metadata = <<>>
    /\ site = SamplePages
    /\ log = <<>>

Next ==
    \/ Start
    \/ ListingFetch
    \/ ListingReturn
    \/ PersistFrontMatter
    \/ DiscoverPage
    \/ DiscoverReturn
    \/ Submit
    \/ StartFetch
    \/ FinishFetch
    \/ Collect
    \/ HarvestReturn
    \/ ExtractRow
    \/ ExtractReturn
    \/ PersistMetadata

Spec == Init /\ [][Next]_vars

(***************************************************************************)
(* The end of get_all_article_urls on any list of discovered references.   *)
(***************************************************************************)
Refs == {<<PaperUrl(u), pg>> : u \in {"p1", "p2"}, pg \in 1..TotalPages}

\* the lists the loop can build: references in the order of their pages
DiscoveredLists ==
    {l \in SeqsUpTo(Refs, MaxRefs) :
        \A i \in 1..Len(l), j \in 1..Len(l) : i < j => l[i][2] <= l[j][2]}

InitDedup ==
    /\ pc = "get_all_article_urls"
    /\ page = TotalPages + 1
    /\ listing_data = EmptyData
    /\ front_matter = <<>>
    /\ all_urls \in DiscoveredLists
    /\ article_urls = <<>>
    /\ max_workers = MAX_WORKERS
    /\ futures = <<>>
    /\ num_threads = 0
    /\ article_data = EmptyData
    /\ df = <<>>
    /\ idx = 1
    /\ data = <<>>
    /\ metadata = <<>>
    /\ site = SamplePages
    /\ log = <<>>

NextDedup == DiscoverReturn

SpecDedup == InitDedup /\ [][NextDedup]_vars

(***************************************************************************)
(* The loop of get_all_article_urls on a catalogue that serves one listing *)
(* page of any shape.                                                      *)
(***************************************************************************)
AnyAnchors == {AnchorNoHref, Anchor(PaperUrl("p1")), Anchor(OtherUrl)}

AnyCards == {Card(a) : a \in SeqsUpTo(AnyAnchors, MaxAnchors)}

InitCollect ==
    /\ pc = "get_all_article_urls"
    /\ page \in 1..TotalPages
    /\ listing_data = EmptyData
    /\ front_matter = <<>>
    /\ all_urls = <<>>
    /\ article_urls = <<>>
    /\ max_workers = MAX_WORKERS
    /\ futures = <<>>
    /\ num_threads = 0
    /\ article_data = EmptyData
    /\ df = <<>>
    /\ idx = 1
    /\ data = <<>>
    /\ metadata = <<>>
    /\ \E b \in SeqsUpTo(AnyCards, MaxTags) : site = {b}
    /\ log = <<>>

NextCollect == DiscoverPage

SpecCollect == InitCollect /\ [][NextCollect]_vars

\* the references in catalogue order
RefList ==
    [i \in 1..(TotalPages * 2) |->
        <<PaperUrl(IF i % 2 = 1 THEN "p1" ELSE "p2"), (i + 1) \div 2>>]

\* pool sizes: 1, N and 2N for every N, and the size the source uses
PoolSizes == 1..(2 * MaxRefs) \cup {MAX_WORKERS}

\* download_article_pages called on n distinct references
InitHarvest ==
    /\ pc = "download_article_pages"
    /\ page = TotalPages + 1
    /\ listing_data = EmptyData
    /\ front_matter = <<>>
    /\ all_urls = <<>>
    /\ \E n \in 0..MaxRefs :
          /\ article_urls = SubSeq(RefList, 1, n)
          /\ max_workers \in PoolSizes
    /\ futures = <<>>
    /\ num_threads = 0
    /\ article_data = EmptyData
    /\ df = <<>>
    /\ idx = 1
    /\ data = <<>>
    /\ metadata = <<>>
    /\ site = SamplePages
    /\ log = <<>>

NextHarvest ==
    Submit \/ StartFetch \/ FinishFetch \/ Collect \/ HarvestReturn

SpecHarvest == InitHarvest /\ [][NextHarvest]_vars

\* the harvest when the calling thread and the worker threads keep running
\* and every request ends: requests.get answers or raises within its timeout
SpecHarvestFair ==
    /\ InitHarvest
    /\ [][NextHarvest]_vars
    /\ WF_vars(Submit)
    /\ WF_vars(StartFetch)
    /\ WF_vars(FinishFetch)
    /\ WF_vars(Collect)
    /\ WF_vars(HarvestReturn)

(***************************************************************************)
(* The deduplication and orchestration claims.                             *)
(***************************************************************************)
\* C1: the deduplicated references are no more than the discovered ones and
\* their URLs are pairwise distinct.
C1_DedupInvariant ==
    pc = "download_article_pages" =>
        /\ Len(article_urls) <= Len(all_urls)
        /\ \A i \in 1..Len(article_urls), j \in 1..Len(article_urls) :
              i # j => article_urls[i][1] # article_urls[j][1]

\* C5: no outcome of a retrieval (status other than 200, network error)
\* aborts the run.
C5_DegradeNeverAbort == pc # "uncaught_RequestException"

\* the position of main in its sequence of calls
Position ==
    CASE pc = "start" -> 0
      [] pc = "download_listing_pages" -> 1
      [] pc = "df2table_front_matter" -> 2
      [] pc = "get_all_article_urls" -> 3
      [] pc = "download_article_pages" -> 4
      [] pc = "extract_metadata" -> 5
      [] pc = "df2table_metadata" -> 6
      [] pc = "done" -> 7
      [] OTHER -> 8

Aborted == pc \in {"uncaught_RequestException", "uncaught_KeyError"}

\* C6 as stated: nothing is persisted before the metadata is extracted, and
\* the references are collected from the listing captures.
C6_StageOrder ==
    /\ (front_matter # <<>> \/ metadata # <<>>) => pc = "done"
    /\ \A i \in 1..Len(all_urls) :
          \E k \in 1..Len(listing_data.page) : listing_data.page[k] = all_urls[i][2]

\* C6 amended: main moves through listing retrieval, persistence of the
\* listing captures, reference collection with deduplication (from its own
\* retrieval of the listing pages), harvest, extraction, persistence of the
\* metadata and the end, one after the other and never back, or stops at
\* an uncaught exception; the listing captures are written only between
\* listing retrieval and reference collection and the metadata only after
\* extraction.
C6_StageOrderAmended ==
    [][/\ Position' = Position \/ Position' = Position + 1 \/ Aborted'
       /\ front_matter' # front_matter => pc = "df2table_front_matter"
       /\ metadata' # metadata => (pc = "df2table_metadata" /\ metadata' = metadata \o data)
       /\ all_urls' # all_urls => pc = "get_all_article_urls"]_vars

\* C6 witness: a finished run that persisted listing captures and metadata
\* and collected a reference from a page the listing walk failed to fetch.
C6_Witness ==
    /\ pc = "done"
    /\ front_matter # <<>>
    /\ metadata # <<>>
    /\ \E i \in 1..Len(all_urls) :
          \A k \in 1..Len(listing_data.page) : listing_data.page[k] # all_urls[i][2]

(***************************************************************************)
(* The harvester claims.                                                   *)
(***************************************************************************)
\* download_article_pages has returned
HarvestReturned == pc \in {"extract_metadata", "df2table_metadata", "done"}

\* the fetches that ended in a network error or a status other than 200
FailedFetches ==
    {i \in 1..Len(futures) : futures[i].response.kind \in {"non200", "exception"}}

\* the fetches that returned status 200 with an empty body
EmptyBodyFetches ==
    {i \in 1..Len(futures) :
        futures[i].response.kind = "200" /\ futures[i].response.body = <<>>}

\* C2 as stated: N references of which K fetches fail (network error or
\* non-200 status) give exactly N-K captures.
C2_Resilience ==
    HarvestReturned =>
        Len(article_data.url) = Len(article_urls) - Cardinality(FailedFetches)

\* C2 amended: N references of which K fetches fail or return an empty body
\* give exactly N-K captures, and the harvest returns once every task was
\* consumed.
C2_ResilienceAmended ==
    /\ HarvestReturned =>
          /\ Len(futures) = Len(article_urls)
          /\ Len(article_data.url) =
                Len(article_urls) - Cardinality(FailedFetches \cup EmptyBodyFetches)
    /\ (pc = "download_article_pages" /\ Len(futures) = Len(article_urls)
          /\ \A i \in 1..Len(futures) : futures[i].yielded)
            => Len(article_data.url) =
                 Len(article_urls) - Cardinality(FailedFetches \cup EmptyBodyFetches)

\* C2 witness: three references, one network error, one non-200 status,
\* one capture.
C2_Witness ==
    /\ HarvestReturned
    /\ Len(article_urls) = 3
    /\ \E i, j \in 1..3 : /\ futures[i].response.kind = "exception"
                           /\ futures[j].response.kind = "non200"
    /\ Len(article_data.url) = 1

\* C3 as stated: when every fetch returns status 200 the harvest holds
\* exactly N captures.
C3_CompletenessFloor ==
    (HarvestReturned /\ \A i \in 1..Len(futures) : futures[i].response.kind = "200")
        => Len(article_data.url) = Len(article_urls)

\* C3 amended: when every fetch returns status 200 with a non-empty body the
\* harvest holds exactly N captures, for every pool size.
C3_CompletenessFloorAmended ==
    (HarvestReturned
        /\ \A i \in 1..Len(futures) :
              futures[i].response.kind = "200" /\ futures[i].response.body # <<>>)
        => /\ Len(article_data.url) = Len(article_urls)
           /\ Len(futures) = Len(article_urls)

\* C3 witness: three references harvested by a pool of one worker and
\* collected out of submission order.
C3_Witness ==
    /\ HarvestReturned
    /\ max_workers = 1
    /\ Len(article_urls) = 3
    /\ \A i \in 1..3 : futures[i].response.kind = "200"
    /\ Len(article_data.url) = 3
    /\ article_data.url[1] # article_urls[1][1]

\* C4: the fetch tasks started and not finished never exceed max_workers.
C4_BoundedConcurrency == Cardinality(Running) <= max_workers

\* C4 witness: the pool is full while a task waits in the queue.
C4_Witness ==
    /\ max_workers = 2
    /\ Cardinality(Running) = 2
    /\ Pending # {}

(***************************************************************************)
(* What the extraction claims expect, stated independently of the code.   *)
(***************************************************************************)
\* t is s without its leading and trailing blanks
IsTrimOf(t, s) ==
    \E i \in 0..Len(s), j \in 0..Len(s) :
        /\ i + Len(t) + j = Len(s)
        /\ \A k \in 1..i : s[k] = " "
        /\ \A k \in 1..j : s[Len(s) - k + 1] = " "
        /\ \A k \in 1..Len(t) : t[k] = s[i + k]
        /\ Len(t) > 0 => (t[1] # " " /\ t[Len(t)] # " ")

Trimmed(s) ==
    CHOOSE t \in {SubSeq(s, a, b) : a \in 1..(Len(s) + 1), b \in 0..Len(s)} :
        IsTrimOf(t, s)

\* the tag has a content attribute whose value is not the empty string
NonEmptyContent(tag) == tag.content # <<>> /\ tag.content[1] # <<>>

\* the "; "-join of the trimmed content of the first n tags that have
\* non-empty content, in document order
JoinedAuthors(tags, n) ==
    LET f[i \in 0..n] ==
            IF i = 0 THEN <<>>
            ELSE IF ~NonEmptyContent(tags[i]) THEN f[i - 1]
            ELSE IF \A k \in 1..(i - 1) : ~NonEmptyContent(tags[k])
                 THEN Trimmed(tags[i].content[1])
                 ELSE f[i - 1] \o <<";", " ">> \o Trimmed(tags[i].content[1])
    IN  f[n]

\* the first non-empty text of a sequence of candidate texts, or ""
FirstNonEmpty(cands) ==
    IF \A i \in 1..Len(cands) : cands[i] = <<>> THEN <<>>
    ELSE cands[SetMin({i \in 1..Len(cands) : cands[i] # <<>>})]

\* the text before the first separator
BeforeSeparator(s) ==
    IF \A i \in 1..Len(s) : s[i] # "·" THEN s
    ELSE LET n == SetMin({i \in 1..Len(s) : s[i] = "·"})
         IN  [i \in 1..(n - 1) |-> s[i]]

\* the content attribute of the first element, "" without element or attribute
ContentOf(elems) ==
    IF elems = <<>> \/ elems[1].content = <<>> THEN <<>>
    ELSE elems[1].content[1]

\* the text of the first element, "" without element
TextOf(elems) == IF elems = <<>> THEN <<>> ELSE elems[1].text

\* extract_metadata has processed its single capture
ExtractedOne == Len(df) = 1 /\ idx = 2

\* the document of the single capture
TheSoup == df[1].html[1]

\* C7: every capture yields a record, whatever element or attribute is
\* missing, and a field none of whose elements gives a value is "".
C7_FieldFailuresNeverDrop ==
    ExtractedOne =>
        /\ Len(data) = 1
        /\ (ContentOf(TheSoup.citation_title) = <<>> /\ TheSoup.paper_title = <<>>
              /\ TheSoup.title = <<>>) => data[1].title = <<>>
        /\ (ContentOf(TheSoup.citation_publication_date) = <<>>
              /\ TheSoup.time = <<>>) => data[1].publication_date = <<>>

\* C8: with at least one citation-author tag, authors is the "; "-join of
\* the trimmed content of the tags with non-empty content and submitted-by
\* is not consulted; with no tag, authors is the trimmed submitted-by text
\* or "".
C8_AuthorAsymmetry ==
    (ExtractedOne /\ Len(data) = 1) =>
        LET tags == TheSoup.citation_author
        IN  data[1].authors =
                IF Len(tags) > 0 THEN JoinedAuthors(tags, Len(tags))
                ELSE Trimmed(TextOf(TheSoup.submitted_by))

\* C8 witness: author tags all with empty content beside a populated
\* submitted-by element gave authors = "".
C8_Witness ==
    /\ ExtractedOne
    /\ Len(data) = 1
    /\ Len(TheSoup.citation_author) = 2
    /\ \A i \in 1..2 : TheSoup.citation_author[i].content = << <<>> >>
    /\ TheSoup.submitted_by = <<[text |-> <<"a">>]>>
    /\ data[1].authors = <<>>

\* C8 witness of the join: two tags with content, blanks trimmed
C8_WitnessJoin ==
    /\ ExtractedOne
    /\ Len(data) = 1
    /\ Len(TheSoup.citation_author) = 2
    /\ TheSoup.citation_author[1].content = << <<" ", "a">> >>
    /\ data[1].authors = <<"a", ";", " ", "a">>

\* C9: the title is the first non-empty of the trimmed citation-title
\* content, the trimmed heading text and the trimmed part of the <title>
\* text before the first separator, and "" when none is non-empty.
C9_TitleCascade ==
    (ExtractedOne /\ Len(data) = 1) =>
        data[1].title =
            FirstNonEmpty(<<Trimmed(ContentOf(TheSoup.citation_title)),
                            Trimmed(TextOf(TheSoup.paper_title)),
                            Trimmed(BeforeSeparator(TextOf(TheSoup.title)))>>)

\* C10: the publication date is the first non-empty of the trimmed
\* citation-publication-date content and the trimmed time span text, and
\* "" when neither is non-empty.
C10_PubDateCascade ==
    (ExtractedOne /\ Len(data) = 1) =>
        data[1].publication_date =
            FirstNonEmpty(<<Trimmed(ContentOf(TheSoup.citation_publication_date)),
                            Trimmed(TextOf(TheSoup.time))>>)

\* s with every upper-case letter replaced by its lower-case letter
Lowercased(s) == [i \in 1..Len(s) |-> CASE s[i] = "A" -> "a" [] OTHER -> s[i]]

\* the badges that do not carry the language-badge class
StatusBadges(badges) ==
    {i \in 1..Len(badges) : "badge-lang" \notin badges[i].class}

\* C11: status is the trimmed, lower-cased text of the first badge without
\* the language-badge class; language badges before it are skipped, later
\* badges are ignored, and status is "" when no badge qualifies.
C11_StatusSkipRule ==
    (ExtractedOne /\ Len(data) = 1) =>
        LET badges == TheSoup.badge
        IN  data[1].status =
                IF StatusBadges(badges) = {} THEN <<>>
                ELSE Lowercased(Trimmed(badges[SetMin(StatusBadges(badges))].text))

\* C11 witness: a language badge is skipped and the badge after it gives
\* the status, trimmed and lower-cased.
C11_Witness ==
    /\ ExtractedOne
    /\ Len(data) = 1
    /\ TheSoup.badge =
          <<[class |-> {"badge", "badge-lang"}, text |-> <<"A">>],
            [class |-> {"badge"}, text |-> <<" ", "A">>]>>
    /\ data[1].status = <<"a">>

(***************************************************************************)
(* The reference collector claims.                                         *)
(***************************************************************************)
RECURSIVE AllAnchors(_)
\* the anchors nested under the cards, in document order
AllAnchors(cards) ==
    IF cards = <<>> THEN <<>> ELSE cards[1].a \o AllAnchors(Tail(cards))

\* the anchor has a link target that starts with the item-URL prefix
IsItemAnchor(anchor) ==
    /\ anchor.href # <<>>
    /\ startswith(anchor.href[1], PAPERS_PREFIX)

RECURSIVE ItemRefs(_, _)
\* one (url, page) per anchor with an item link target, in document order
ItemRefs(anchors, pg) ==
    IF anchors = <<>> THEN <<>>
    ELSE (IF IsItemAnchor(anchors[1]) THEN << <<anchors[1].href[1], pg>> >>
          ELSE <<>>) \o ItemRefs(Tail(anchors), pg)

RECURSIVE CollectedOver(_)
\* the references of every listing page get_all_article_urls received with
\* status 200, page after page
CollectedOver(l) ==
    IF l = <<>> THEN <<>>
    ELSE LET e == l[Len(l)]
         IN  CollectedOver(SubSeq(l, 1, Len(l) - 1)) \o
               (IF e.fn = "get_all_article_urls" /\ e.ok
                THEN ItemRefs(AllAnchors(e.body), e.page) ELSE <<>>)

\* C12: the collected references are one (url, page) per anchor under a card
\* whose link target starts with the item-URL prefix, over all anchors of
\* every card, tagged with the page they were found on.
C12_CollectorCompleteness ==
    pc = "get_all_article_urls" => all_urls = CollectedOver(log)

\* C13: collection returns normally for every listing page content.
C13_CollectorNeverRaises == pc # "uncaught_KeyError"

(***************************************************************************)
(* Listing retrieval order.                                                *)
(***************************************************************************)
IsListingRequest(e) == e.fn = "download_listing_pages"

\* the requests download_listing_pages has made, in the order it made them
ListingLog == SelectSeq(log, IsListingRequest)

IsOk(e) == e.ok

\* the pages of the requests in l, in order
PagesOf(l) == [i \in 1..Len(l) |-> l[i].page]

ListingReturned == pc \notin {"start", "download_listing_pages"}

\* C14: download_listing_pages attempts pages 1..N once each in increasing
\* order whatever the earlier outcomes, and its captures are, in strictly
\* increasing page order and at most one per page, exactly the pages whose
\* fetch returned status 200.
C14_ListingOrder ==
    /\ \A i \in 1..Len(ListingLog) : ListingLog[i].page = i
    /\ Len(ListingLog) <= TotalPages
    /\ ListingReturned => Len(ListingLog) = TotalPages
    /\ listing_data.page = PagesOf(SelectSeq(ListingLog, IsOk))
    /\ \A i, j \in 1..Len(listing_data.page) :
          i < j => listing_data.page[i] < listing_data.page[j]
    /\ Len(listing_data.url) = Len(listing_data.page)
    /\ Len(listing_data.html) = Len(listing_data.page)
    /\ \A i \in 1..Len(listing_data.page) :
          listing_data.url[i] = ListingUrl(listing_data.page[i])

C14_Witness ==
    /\ ListingReturned
    /\ ~ListingLog[1].ok
    /\ ListingLog[TotalPages].ok
    /\ listing_data.page = <<TotalPages>>

(***************************************************************************)
(* The rows of the harvest.                                                *)
(***************************************************************************)
\* the submitted references row k of the result can stem from
SourcesOf(k) ==
    {i \in 1..Len(futures) :
        /\ futures[i].url = article_data.url[k]
        /\ futures[i].page = article_data.page[k]}

\* C15: the result columns have equal length, and each row is the url and
\* page of exactly one submitted reference with the content that reference's
\* own fetch returned; no reference has two rows.
C15_CaptureIntegrity ==
    /\ Len(article_data.url) = Len(article_data.html)
    /\ Len(article_data.url) = Len(article_data.page)
    /\ \A k \in 1..Len(article_data.url) :
          /\ Cardinality(SourcesOf(k)) = 1
          /\ \A i \in SourcesOf(k) :
                /\ futures[i].state = "done"
                /\ futures[i].response.kind = "200"
                /\ article_data.html[k] = futures[i].response.body
                /\ <<futures[i].url, futures[i].page>> = article_urls[i]
    /\ \A k, l \in 1..Len(article_data.url) :
          SourcesOf(k) = SourcesOf(l) => k = l

\* C15 witness: three fetches overlapped, two pages came back with
\* different contents and were collected against the order of submission.
C15_Witness ==
    /\ HarvestReturned
    /\ max_workers = 3
    /\ Len(article_urls) = 3
    /\ futures[2].response.kind = "exception"
    /\ article_data.url = <<article_urls[3][1], article_urls[1][1]>>
    /\ article_data.page = <<article_urls[3][2], article_urls[1][2]>>
    /\ article_data.html = <<futures[3].response.body, futures[1].response.body>>
    /\ futures[3].response.body # futures[1].response.body

(***************************************************************************)
(* No retries.                                                             *)
(***************************************************************************)
\* the requests download_listing_pages has made for page pg
ListingRequestsFor(pg) ==
    {i \in 1..Len(ListingLog) : ListingLog[i].page = pg}

\* the rows of the harvest that stem from reference i
RowsOf(i) ==
    {k \in 1..Len(article_data.url) :
        /\ article_data.url[k] = futures[i].url
        /\ article_data.page[k] = futures[i].page}

\* C16: each reference is fetched exactly once by download_article_pages and
\* each listing page exactly once by download_listing_pages; after a failed
\* fetch no further fetch for it is issued and it contributes nothing.
C16_NoRetries ==
    /\ \A i \in 1..Len(futures) :
          /\ futures[i].attempts <= 1
          /\ futures[i].state \in {"running", "done"} => futures[i].attempts = 1
          /\ i \in FailedFetches =>
                futures[i].state = "done" /\ RowsOf(i) = {}
    /\ HarvestReturned =>
          /\ Len(futures) = Len(article_urls)
          /\ \A i \in 1..Len(futures) : futures[i].attempts = 1
    /\ \A pg \in 1..TotalPages :
          /\ Cardinality(ListingRequestsFor(pg)) <= 1
          /\ (\E i \in ListingRequestsFor(pg) : ~ListingLog[i].ok)
                => \A k \in 1..Len(listing_data.page) : listing_data.page[k] # pg
    /\ ListingReturned =>
          \A pg \in 1..TotalPages : Cardinality(ListingRequestsFor(pg)) = 1

\* C16 witness: a run that ended after a listing page and an article fetch
\* had failed, each requested once and absent from the results.
C16_Witness ==
    /\ pc = "done"
    /\ ~ListingLog[1].ok
    /\ listing_data.page = <<TotalPages>>
    /\ Len(futures) = 2
    /\ futures[1].response.kind = "exception"
    /\ futures[1].attempts = 1
    /\ futures[2].response.kind = "200"
    /\ Len(article_data.url) = 1

(***************************************************************************)
(* Order preservation outside the harvester.                               *)
(***************************************************************************)
RECURSIVE IsSubsequence(_, _)
\* the elements of a occur in b in the same relative order
IsSubsequence(a, b) ==
    IF a = <<>> THEN TRUE
    ELSE IF b = <<>> THEN FALSE
    ELSE IF a[1] = b[1] THEN IsSubsequence(Tail(a), Tail(b))
    ELSE IsSubsequence(a, Tail(b))

\* the url of every row of a table
UrlsOf(rows) == [k \in 1..Len(rows) |-> rows[k].url]

DedupReturned ==
    pc \in {"download_article_pages", "extract_metadata",
            "df2table_metadata", "done"}

\* C17: every stage other than the harvester emits its elements in the
\* relative order of its input, 1:1 or with failed elements dropped: the
\* listing captures in page order, the collected references in order of
\* discovery, the deduplicated references in order of discovery, and the
\* records of extract_metadata in the order of the input captures.
C17_OrderPreservation ==
    /\ listing_data.page = PagesOf(SelectSeq(ListingLog, IsOk))
    /\ pc = "get_all_article_urls" =>
          IsSubsequence(all_urls, CollectedOver(log))
    /\ DedupReturned => IsSubsequence(article_urls, all_urls)
    /\ IsSubsequence(UrlsOf(data), UrlsOf(df))
    /\ pc = "done" => metadata = data

(***************************************************************************)
(* Termination of the harvest.                                             *)
(***************************************************************************)
\* every submitted task finished and its result was consumed
Quiescent ==
    /\ Len(futures) = Len(article_urls)
    /\ Running = {}
    /\ Pending = {}
    /\ \A i \in 1..Len(futures) :
          futures[i].state = "done" /\ futures[i].yielded

\* C18: when threads are scheduled fairly and every started fetch ends, the
\* harvest eventually returns, and once it has returned every submitted task
\* has finished and been consumed: none is pending or in flight.
C18_HarvestTerminates ==
    /\ <>HarvestReturned
    /\ [](HarvestReturned => Quiescent)

\* C18 witness: the harvest returned after its references queued for a
\* single worker thread and every fetch failed.
C18_Witness ==
    /\ HarvestReturned
    /\ max_workers = 1
    /\ Len(article_urls) = 3
    /\ Quiescent
    /\ \A i \in 1..3 : futures[i].response.kind = "exception"
    /\ article_data = EmptyData

(***************************************************************************)
(* Capture admission.                                                      *)
(***************************************************************************)
\* the fetch of reference i raised nothing, returned status 200 and a body
\* that is not empty
Admitted(i) ==
    /\ futures[i].response.kind = "200"
    /\ futures[i].response.body # <<>>

\* C19: a reference contributes a capture if and only if its fetch raised no
\* exception, returned status 200 and a non-empty body; status 200 with an
\* empty body contributes nothing, like a failed fetch.
C19_CaptureAdmission ==
    /\ \A i \in 1..Len(futures) :
          futures[i].yielded =>
             (IF Admitted(i) THEN Cardinality(RowsOf(i)) = 1
              ELSE RowsOf(i) = {})
    /\ \A i \in 1..Len(futures) : ~futures[i].yielded => RowsOf(i) = {}
    /\ HarvestReturned =>
          \A i \in 1..Len(article_urls) :
             /\ i <= Len(futures)
             /\ futures[i].yielded
             /\ Admitted(i) <=> RowsOf(i) # {}

\* C19 witness: of three references one answered 200 with an empty body, one
\* raised and one answered 200 with a page; only the last has a row.
C19_Witness ==
    /\ HarvestReturned
    /\ Len(article_urls) = 3
    /\ futures[1].response = [kind |-> "200", body |-> <<>>]
    /\ futures[2].response.kind = "exception"
    /\ futures[3].response.kind = "200"
    /\ futures[3].response.body # <<>>
    /\ article_data.url = <<article_urls[3][1]>>
    /\ article_data.page = <<article_urls[3][2]>>

====
